---- MODULE Spec2Model ----
(***************************************************************************)
(* Model of update_prices.py: the daily price updater that pages through   *)
(* every card set of the upstream API, upserts the price rows of each page *)
(* into card_prices and records its position in price_run_progress so that *)
(* a later run on the same date resumes where the previous one stopped.    *)
(*                                                                         *)
(* One run of main() is a process with a program counter; every request to *)
(* the upstream API, every write to card_prices and every read or write of *)
(* price_run_progress is one step.  The answers of the upstream API and of *)
(* the database are chosen nondeterministically.                           *)
(***************************************************************************)
EXTENDS Integers, Sequences, FiniteSets, TLC

VARIABLES
    price_run_progress,  \* the ledger table for TODAY: set_id -> row or NoRow
    card_prices,         \* the price table for TODAY: set of <<set_id, page, card>>
    run,                 \* the local state of each invocation of main()
    upsert_log,          \* history: what upsert_prices left of each page (rows in
                         \* card_prices, no row to write, rows given up)
    deferred             \* history: where a set was last left on "retry"

vars == <<price_run_progress, card_prices, run, upsert_log, deferred>>

----------------------------------------------------------------------------
(* Bounds of the model *)

MaxPages == 2           \* non-empty pages a set can have upstream

(* Configuration of the program *)

PAGE_SIZES_TRY == <<100, 50, 25>>
MAX_RETRIES == 4
DIRECT_ATTEMPTS == 3
TRANSIENT_STATUS == {429, 500, 502, 503, 504}

Runs == {"r1", "r2"}
FirstRun == "r1"
Pages == 1..(MaxPages + 1)
None == "None"
\* a (run_date, set_id) key that has no row in price_run_progress
NoRow == [present |-> FALSE, last_page_done |-> 0, done |-> FALSE]
NoResp == [kind |-> "none", code |-> 0, data |-> << >>]
\* the answer that ended fetch_cards_page's listing loops, and its class
NoFinal == [class |-> "none", kind |-> "none", code |-> 0, data |-> << >>]
Final(cls, resp, data) ==
    [class |-> cls, kind |-> resp.kind, code |-> resp.code, data |-> data]
Row(page, done) == [present |-> TRUE, last_page_done |-> page, done |-> done]

\* sets = supabase.table("sets").select("id").order("id"): ids in id order
set_ids == <<"base1", "base2">>
Groups == {set_ids[i] : i \in 1..Len(set_ids)}

----------------------------------------------------------------------------
(* The upstream API: what one request can answer *)

\* a card either carries a tcgplayer price variant or none
Payloads == {<< >>, <<"bare">>, <<"bare", "priced">>}

\* the upstream holds at most MaxPages pages of cards for the first set and
\* one page for the others; a page beyond them is empty
UpstreamPages(set_id) == IF set_id = set_ids[1] THEN MaxPages ELSE 1

PayloadsAt(set_id, page) ==
    IF page <= UpstreamPages(set_id) THEN Payloads ELSE {<< >>}

Http(code, data) == [kind |-> "http", code |-> code, data |-> data]

ListResponses(set_id, page) ==
    {Http(200, d) : d \in PayloadsAt(set_id, page)}
        \cup {Http(c, << >>) : c \in {404, 429, 503, 403}}
        \cup {[kind |-> "timeout", code |-> 0, data |-> << >>],
              [kind |-> "error", code |-> 0, data |-> << >>]}

DirectResponses ==
    {Http(c, << >>) : c \in {200, 404, 503}}
        \cup {[kind |-> "error", code |-> 0, data |-> << >>]}

SearchResponses ==
    {Http(200, << >>), Http(200, <<"id">>), Http(404, << >>),
     [kind |-> "error", code |-> 0, data |-> << >>]}

----------------------------------------------------------------------------
(* Pure helpers of the program *)

\* rows_from_card: one row per price variant of the card, none without prices
rows_from_card(set_id, page, i, card) ==
    IF card = "priced" THEN << <<set_id, page, i>> >> ELSE << >>

RECURSIVE ProjectFrom(_, _, _, _)
ProjectFrom(set_id, page, cards, i) ==
    IF i > Len(cards) THEN << >>
    ELSE rows_from_card(set_id, page, i, cards[i])
             \o ProjectFrom(set_id, page, cards, i + 1)

\* batch_rows of main: the rows of every card of the page, in order
batch_rows_of(set_id, page, cards) == ProjectFrom(set_id, page, cards, 1)

SeqToSet(s) == {s[i] : i \in 1..Len(s)}

\* a variant that retries a status it does not know like a 5xx
ListingClass_OtherTransient(resp) ==
    IF resp.kind = "http" /\ resp.code = 200 THEN "ok"
    ELSE IF resp.kind = "http" /\ resp.code = 404 THEN "not_found"
    ELSE "transient"

\* fetch_cards_page: how one answer of the listing call is classified
ListingClass(resp) ==
    IF resp.kind # "http" THEN "transient"
    ELSE IF resp.code = 200 THEN "ok"
    ELSE IF resp.code \in TRANSIENT_STATUS THEN "transient"
    ELSE IF resp.code = 404 THEN "not_found"
    ELSE "unexpected"

\* a variant that allows one attempt more than MAX_RETRIES at every size
AfterTransient_OneMore(size_i, attempt) ==
    IF attempt < MAX_RETRIES + 1
        THEN [exhausted |-> FALSE, size_i |-> size_i, attempt |-> attempt + 1]
    ELSE IF size_i < Len(PAGE_SIZES_TRY)
        THEN [exhausted |-> FALSE, size_i |-> size_i + 1, attempt |-> 1]
    ELSE [exhausted |-> TRUE, size_i |-> size_i, attempt |-> attempt]

\* a variant that leaves a page size at its first transient failure
AfterTransient_FallFast(size_i, attempt) ==
    IF size_i < Len(PAGE_SIZES_TRY)
        THEN [exhausted |-> FALSE, size_i |-> size_i + 1, attempt |-> 1]
    ELSE [exhausted |-> TRUE, size_i |-> size_i, attempt |-> attempt]

\* fetch_cards_page: the loops over sizes and attempts after a transient failure
AfterTransient(size_i, attempt) ==
    IF attempt < MAX_RETRIES
        THEN [exhausted |-> FALSE, size_i |-> size_i, attempt |-> attempt + 1]
    ELSE IF size_i < Len(PAGE_SIZES_TRY)
        THEN [exhausted |-> FALSE, size_i |-> size_i + 1, attempt |-> 1]
    ELSE [exhausted |-> TRUE, size_i |-> size_i, attempt |-> attempt]

\* fetch_cards_page: the result of a 200 answer
OkResult(resp) == [cards |-> resp.data, status |-> "ok"]

\* fetch_cards_page: the result of every path that gives the page up
RetryResult == [cards |-> << >>, status |-> "retry"]

\* a variant that skips the set the resolver found
StatusAfter404_Swapped(exists) == IF exists THEN "skip" ELSE "retry"

\* fetch_cards_page: the status returned once set_exists_in_api has answered
StatusAfter404(exists) == IF ~exists THEN "skip" ELSE "retry"

\* set_exists_in_api: what the direct lookup loop does with one answer
DirectStep(resp, tries) ==
    IF resp.kind = "http" /\ resp.code = 200 THEN "return_true"
    ELSE IF resp.kind = "http" /\ resp.code = 404 THEN "search"
    ELSE IF tries < DIRECT_ATTEMPTS THEN "again"
    ELSE "search"

\* a variant that fails closed: only a search with matches proves existence
SearchResult_FailClosed(resp) ==
    resp.kind = "http" /\ resp.code = 200 /\ resp.data # << >>

\* set_exists_in_api: the value returned from the search call
SearchResult(resp) ==
    IF resp.kind = "http" /\ resp.code = 200 THEN resp.data # << >>
    ELSE TRUE

\* a variant that allows one attempt more than MAX_RETRIES
UpsertGivesUp_OneMore(attempt) == attempt = MAX_RETRIES + 1

\* upsert_prices: the attempt after which the failure is swallowed
UpsertGivesUp(attempt) == attempt = MAX_RETRIES

\* a variant that never passes a set over
AlreadyDone_Never(prog) == FALSE

\* main: a set already marked done today is passed over
AlreadyDone(prog) == prog.done

\* a variant that resumes one page too far
ResumePage_SkipOne(prog) == prog.last_page_done + 2

\* a variant that starts every set again at its first page
ResumePage_Restart(prog) == 1

\* main: the page a set is resumed at
ResumePage(prog) == prog.last_page_done + 1

\* a variant that ends a set the way a skip does, at page 0
DonePage_Zero(page) == 0

\* a variant that records the empty page itself
DonePage_Same(page) == page

\* main: last_page_done written when the page fetched is empty
DonePage(page) == page - 1

\* main: last_page_done written when the set is skipped
SkipPage == 0

\* a variant that patches the ledger without calling upsert_prices
AfterProject_PatchFirst == "patch"

\* main: upsert_prices is called before update_progress
AfterProject == "upsert"

\* get_progress: the row created on the first touch of a set
DefaultProgress == [last_page_done |-> 0, done |-> FALSE]

\* the upsert on (run_date, set_id): the supplied columns replace the stored ones
UpsertRow(table, set_id, patch) ==
    [table EXCEPT ![set_id] =
        [present |-> TRUE,
         last_page_done |-> IF "last_page_done" \in DOMAIN patch
                                THEN patch.last_page_done
                                ELSE table[set_id].last_page_done,
         done |-> IF "done" \in DOMAIN patch THEN patch.done
                  ELSE table[set_id].done]]

\* update_progress as main calls it, with both page and done supplied
update_progress(table, set_id, page, done) ==
    UpsertRow(table, set_id, [last_page_done |-> page, done |-> done])

----------------------------------------------------------------------------
(* The state of one invocation of main() *)

NoExists ==
    [tries |-> 0, n404 |-> 0, got200 |-> FALSE, search |-> NoResp,
     returned |-> FALSE, value |-> TRUE]

NoFetch ==
    [size_i |-> 1, attempt |-> 1, reqs |-> 0,
     fails |-> [i \in 1..Len(PAGE_SIZES_TRY) |-> 0],
     final |-> NoFinal, exists |-> NoExists,
     cards_page |-> << >>, status |-> None, batch_rows |-> << >>,
     up_attempt |-> 0, entry_at_fetch |-> NoRow]

NoSummary == [printed |-> FALSE, done |-> {}, skipped |-> {}, retry |-> {}, remaining |-> {}]

NotDeferred == [page |-> 0, entry |-> NoRow]

IdleRun ==
    [pc |-> "idle", idx |-> 0, page |-> 0,
     sets_done |-> << >>, sets_skipped |-> << >>, sets_retry |-> << >>,
     summary |-> NoSummary, raised_at |-> None, fetch |-> NoFetch]

Init ==
    /\ price_run_progress = [g \in Groups |-> NoRow]
    /\ card_prices = {}
    /\ run = [r \in Runs |-> IdleRun]
    /\ upsert_log = [g \in Groups |-> [p \in Pages |-> "none"]]
    /\ deferred = [g \in Groups |-> NotDeferred]

----------------------------------------------------------------------------
(* main(): the loop over the sets *)

Cur(r) == set_ids[run[r].idx]

\* a variant whose loop stops one set short
LoopHead_StopEarly(idx) == IF idx < Len(set_ids) THEN "select_progress" ELSE "summary"

\* the head of "for set_id in set_ids", then the summary
LoopHead(idx) == IF idx <= Len(set_ids) THEN "select_progress" ELSE "summary"

\* "continue" and "break" both go on with the next set
NextSet(rec) == [rec EXCEPT !.idx = rec.idx + 1, !.pc = LoopHead(rec.idx + 1)]

\* a call of fetch_cards_page begins; entry is the ledger row at that moment
BeginFetch(rec, page, entry) ==
    [rec EXCEPT !.pc = "list", !.page = page,
                !.fetch = [NoFetch EXCEPT !.entry_at_fetch = entry]]

\* main after get_progress returned prog
EnterSet(rec, prog, entry) ==
    IF AlreadyDone(prog)
        THEN NextSet([rec EXCEPT !.fetch = NoFetch])
        ELSE BeginFetch(rec, ResumePage(prog), entry)

NoOtherRun(r) == \A o \in Runs \ {r} : run[o].pc = "idle"

\* main() is invoked: the sets are read and the run totals are empty
StartRun(r) ==
    /\ run[r].pc = "idle"
    /\ run' = [run EXCEPT ![r] = [IdleRun EXCEPT !.pc = LoopHead(1), !.idx = 1]]
    /\ UNCHANGED <<price_run_progress, card_prices, upsert_log, deferred>>

\* runs that do not overlap: a run starts when no other is in progress
Start(r) == r = FirstRun /\ NoOtherRun(r) /\ StartRun(r)

\* get_progress: the select; an existing row is returned
GetProgressSelect(r) ==
    /\ run[r].pc = "select_progress"
    /\ LET row == price_run_progress[Cur(r)]
       IN  run' = [run EXCEPT ![r] =
                IF row.present THEN EnterSet(run[r], row, row)
                ELSE [run[r] EXCEPT !.pc = "init_progress"]]
    /\ UNCHANGED <<price_run_progress, card_prices, upsert_log, deferred>>

\* get_progress: no row was found, the default row is upserted and returned
GetProgressInit(r) ==
    /\ run[r].pc = "init_progress"
    /\ price_run_progress' = UpsertRow(price_run_progress, Cur(r), DefaultProgress)
    /\ run' = [run EXCEPT ![r] =
            EnterSet(run[r], DefaultProgress, price_run_progress'[Cur(r)])]
    /\ UNCHANGED <<card_prices, upsert_log, deferred>>

----------------------------------------------------------------------------
(* fetch_cards_page and set_exists_in_api, one request per step *)

\* fetch_cards_page returns result to main; the record of the call is kept
\* until main enters the next set
FetchReturns(rec, f, result) ==
    [rec EXCEPT !.pc = "ret",
                !.fetch = [f EXCEPT !.cards_page = result.cards,
                                    !.status = result.status,
                                    !.attempt = 1]]

\* one GET of CARDS_URL and what fetch_cards_page does with the answer
ListRequest(r, resp) ==
    /\ run[r].pc = "list"
    /\ LET rec == run[r]
           cls == ListingClass(resp)
           f == [rec.fetch EXCEPT !.reqs = @ + 1]
           ff == [f EXCEPT !.final = Final(cls, resp, resp.data)]
           nxt == AfterTransient(f.size_i, f.attempt)
           ft == [f EXCEPT !.fails[f.size_i] = @ + 1]
       IN  run' = [run EXCEPT ![r] =
              CASE cls = "ok" -> FetchReturns(rec, ff, OkResult(resp))
                [] cls = "transient" ->
                     IF nxt.exhausted
                         THEN FetchReturns(rec,
                                  [ft EXCEPT !.final = Final(cls, resp, << >>)],
                                  RetryResult)
                         ELSE [rec EXCEPT !.fetch =
                                  [ft EXCEPT !.size_i = nxt.size_i,
                                             !.attempt = nxt.attempt]]
                [] cls = "not_found" ->
                     \* the position in the listing loops is not used again
                     [rec EXCEPT !.pc = "exists_direct",
                                 !.fetch = [NoFetch EXCEPT
                                     !.final = ff.final,
                                     !.exists.tries = 1,
                                     !.entry_at_fetch = ff.entry_at_fetch]]
                [] OTHER -> FetchReturns(rec, ff, RetryResult)]
    /\ UNCHANGED <<price_run_progress, card_prices, upsert_log, deferred>>

\* fetch_cards_page asks for the page of the current set
FetchCardsPage(r) ==
    /\ run[r].pc = "list"
    /\ \E resp \in ListResponses(Cur(r), run[r].page) : ListRequest(r, resp)

ExistsReturns(rec, e, value) ==
    FetchReturns(rec,
            [rec.fetch EXCEPT !.exists = [e EXCEPT !.returned = TRUE, !.value = value]],
        [cards |-> << >>, status |-> StatusAfter404(value)])

\* one GET of SETS_URL/{id} in the loop of set_exists_in_api
ExistsDirect(r, resp) ==
    /\ run[r].pc = "exists_direct"
    /\ LET rec == run[r]
           e0 == rec.fetch.exists
           e == [e0 EXCEPT
                   !.n404 = @ + (IF resp.kind = "http" /\ resp.code = 404 THEN 1 ELSE 0),
                   !.got200 = (resp.kind = "http" /\ resp.code = 200)]
           step == DirectStep(resp, e0.tries)
       IN  run' = [run EXCEPT ![r] =
              CASE step = "return_true" -> ExistsReturns(rec, e, TRUE)
                [] step = "again" ->
                     [rec EXCEPT !.fetch.exists = [e EXCEPT !.tries = @ + 1]]
                [] OTHER ->
                     [rec EXCEPT !.pc = "exists_search", !.fetch.exists = e]]
    /\ UNCHANGED <<price_run_progress, card_prices, upsert_log, deferred>>

\* the GET of SETS_URL?q=id:{id} that ends set_exists_in_api
ExistsSearch(r, resp) ==
    /\ run[r].pc = "exists_search"
    /\ LET rec == run[r]
           e == [rec.fetch.exists EXCEPT !.search = resp]
       IN  run' = [run EXCEPT ![r] = ExistsReturns(rec, e, SearchResult(resp))]
    /\ UNCHANGED <<price_run_progress, card_prices, upsert_log, deferred>>

----------------------------------------------------------------------------
(* main(): what the loop does with the result of fetch_cards_page *)

Fetched(r, status) == run[r].pc = "ret" /\ run[r].fetch.status = status

\* status "skip": the set is recorded as skipped and marked done at page 0
MainSkip(r) ==
    /\ Fetched(r, "skip")
    /\ price_run_progress' = update_progress(price_run_progress, Cur(r), SkipPage, TRUE)
    /\ run' = [run EXCEPT ![r] =
            NextSet([run[r] EXCEPT !.sets_skipped = Append(@, Cur(r))])]
    /\ deferred' = [deferred EXCEPT ![Cur(r)] = NotDeferred]
    /\ UNCHANGED <<card_prices, upsert_log>>

\* status "retry": the set is recorded for the next run, the ledger is not written
MainRetry(r) ==
    /\ Fetched(r, "retry")
    /\ run' = [run EXCEPT ![r] =
            NextSet([run[r] EXCEPT !.sets_retry = Append(@, Cur(r))])]
    /\ deferred' = [deferred EXCEPT ![Cur(r)] =
            [page |-> run[r].page, entry |-> run[r].fetch.entry_at_fetch]]
    /\ UNCHANGED <<price_run_progress, card_prices, upsert_log>>

\* status "ok" with no card: the set is finished at the page before
MainDone(r) ==
    /\ Fetched(r, "ok")
    /\ run[r].fetch.cards_page = << >>
    /\ price_run_progress' =
           update_progress(price_run_progress, Cur(r), DonePage(run[r].page), TRUE)
    /\ run' = [run EXCEPT ![r] =
            NextSet([run[r] EXCEPT !.sets_done = Append(@, Cur(r))])]
    /\ deferred' = [deferred EXCEPT ![Cur(r)] = NotDeferred]
    /\ UNCHANGED <<card_prices, upsert_log>>

\* status "ok" with cards: the rows of the page are projected
MainPage(r) ==
    /\ Fetched(r, "ok")
    /\ run[r].fetch.cards_page # << >>
    /\ run' = [run EXCEPT ![r] =
            [run[r] EXCEPT
                !.pc = AfterProject,
                !.fetch = [NoFetch EXCEPT
                    !.cards_page = run[r].fetch.cards_page,
                    !.batch_rows =
                        batch_rows_of(Cur(r), run[r].page, run[r].fetch.cards_page),
                    !.up_attempt = 1]]]
    /\ UNCHANGED <<price_run_progress, card_prices, upsert_log, deferred>>

\* the rows of a page that card_prices holds
HasRows(table, set_id, page) == \E row \in table : row[1] = set_id /\ row[2] = page

\* upsert_prices: returns at once without rows, else one write attempt
Upsert(r, succeeds) ==
    /\ run[r].pc = "upsert"
    /\ LET rec == run[r]
           rows == rec.fetch.batch_rows
           returns(outcome, table) ==
               /\ card_prices' = table
               /\ run' = [run EXCEPT ![r] =
                      [rec EXCEPT !.pc = "patch", !.fetch = NoFetch]]
               /\ upsert_log' = [upsert_log EXCEPT ![Cur(r)][rec.page] =
                      IF HasRows(table, Cur(r), rec.page) THEN "written"
                      ELSE outcome]
       IN  IF rows = << >>
               THEN returns("norows", card_prices)
           ELSE IF succeeds
               THEN returns("written", card_prices \cup SeqToSet(rows))
           ELSE IF UpsertGivesUp(rec.fetch.up_attempt)
               THEN returns("failed", card_prices)
           ELSE /\ run' = [run EXCEPT ![r] = [rec EXCEPT !.fetch.up_attempt = @ + 1]]
                /\ UNCHANGED <<card_prices, upsert_log>>
    /\ UNCHANGED <<price_run_progress, deferred>>

\* update_progress(page, done=False), then page += 1 and the next fetch
MainPatch(r) ==
    /\ run[r].pc = "patch"
    /\ price_run_progress' =
           update_progress(price_run_progress, Cur(r), run[r].page, FALSE)
    /\ run' = [run EXCEPT ![r] =
            BeginFetch(run[r], run[r].page + 1, price_run_progress'[Cur(r)])]
    /\ deferred' = [deferred EXCEPT ![Cur(r)] = NotDeferred]
    /\ UNCHANGED <<card_prices, upsert_log>>

----------------------------------------------------------------------------
(* main(): the summary *)

\* a variant that takes every row of today for a finished set
done_from_db_AllRows == {g \in Groups : price_run_progress[g].present}

\* the summary's view of the ledger rows of today
done_from_db == {g \in Groups : price_run_progress[g].present /\ price_run_progress[g].done}

not_done_from_db ==
    {g \in Groups : price_run_progress[g].present /\ ~price_run_progress[g].done}

remaining_sets == {set_ids[i] : i \in 1..Len(set_ids)} \ done_from_db

\* "items or fallback" of the show_list calls
OrElse(items, fallback) == IF items # << >> THEN SeqToSet(items) ELSE fallback

Summary(r) ==
    /\ run[r].pc = "summary"
    /\ run' = [run EXCEPT ![r] =
            [run[r] EXCEPT
                !.pc = "finished",
                !.fetch = NoFetch,
                !.summary = [printed |-> TRUE,
                             done |-> OrElse(run[r].sets_done, done_from_db),
                             skipped |-> SeqToSet(run[r].sets_skipped),
                             retry |-> OrElse(run[r].sets_retry, not_done_from_db),
                             remaining |-> remaining_sets]]]
    /\ UNCHANGED <<price_run_progress, card_prices, upsert_log, deferred>>

----------------------------------------------------------------------------
(* Failures of the ledger calls and the end of a process *)

\* the places of main where the next statement is a call on price_run_progress
AtLedgerCall(rec) ==
    \/ rec.pc \in {"select_progress", "init_progress", "patch", "summary"}
    \/ rec.pc = "ret" /\ rec.fetch.status = "skip"
    \/ rec.pc = "ret" /\ rec.fetch.status = "ok" /\ rec.fetch.cards_page = << >>

\* .execute() raises: nothing in main catches it, the process ends
LedgerRaise(r) ==
    /\ AtLedgerCall(run[r])
    /\ run' = [run EXCEPT ![r] =
            [IdleRun EXCEPT !.pc = "crashed", !.raised_at = run[r].pc,
                            !.idx = run[r].idx]]
    /\ UNCHANGED <<price_run_progress, card_prices, upsert_log, deferred>>

\* the process is killed between two steps
Interrupt(r) ==
    /\ run[r].pc \notin {"idle", "finished", "crashed"}
    /\ run' = [run EXCEPT ![r] = IdleRun]
    /\ UNCHANGED <<price_run_progress, card_prices, upsert_log, deferred>>

\* the process has ended
Exit(r) ==
    /\ run[r].pc \in {"finished", "crashed"}
    /\ run' = [run EXCEPT ![r] = IdleRun]
    /\ UNCHANGED <<price_run_progress, card_prices, upsert_log, deferred>>

----------------------------------------------------------------------------

\* the next statement of a run that is neither killed nor failed by the ledger
Proceed(r) ==
    \/ GetProgressSelect(r)
    \/ GetProgressInit(r)
    \/ FetchCardsPage(r)
    \/ \E resp \in DirectResponses : ExistsDirect(r, resp)
    \/ \E resp \in SearchResponses : ExistsSearch(r, resp)
    \/ MainSkip(r)
    \/ MainRetry(r)
    \/ MainDone(r)
    \/ MainPage(r)
    \/ \E succeeds \in BOOLEAN : Upsert(r, succeeds)
    \/ MainPatch(r)
    \/ Summary(r)

Step(r) ==
    \/ Proceed(r)
    \/ LedgerRaise(r)
    \/ Interrupt(r)
    \/ Exit(r)

Next == \E r \in Runs : Start(r) \/ Step(r)

Spec == Init /\ [][Next]_vars

\* the first run of the day: main() is invoked while the ledger has no row
StartFresh(r) ==
    /\ \A g \in Groups : ~price_run_progress[g].present
    /\ Start(r)

NextFirstRun == \E r \in Runs : StartFresh(r) \/ Step(r)

SpecFirstRun == Init /\ [][NextFirstRun]_vars

\* two invocations of main() on the same date whose steps interleave; each
\* runs once, to the end of its summary
\* requests that are answered at once: no timeout, no 5xx, no failed write
Answered(resp) == resp.kind = "http" /\ resp.code \notin TRANSIENT_STATUS

FetchAnswered(r) ==
    /\ run[r].pc = "list"
    /\ \E resp \in ListResponses(Cur(r), run[r].page) :
           Answered(resp) /\ ListRequest(r, resp)

ExistsDirectAnswered(r) ==
    \E resp \in DirectResponses : Answered(resp) /\ ExistsDirect(r, resp)

ExistsSearchAnswered(r) ==
    \E resp \in SearchResponses : Answered(resp) /\ ExistsSearch(r, resp)

\* the next statement of a run whose requests are all answered at once
ProceedAnswered(r) ==
    \/ GetProgressSelect(r)
    \/ GetProgressInit(r)
    \/ FetchAnswered(r)
    \/ ExistsDirectAnswered(r)
    \/ ExistsSearchAnswered(r)
    \/ MainSkip(r)
    \/ MainRetry(r)
    \/ MainDone(r)
    \/ MainPage(r)
    \/ Upsert(r, TRUE)
    \/ MainPatch(r)
    \/ Summary(r)

NextOverlap == \E r \in Runs : StartRun(r) \/ ProceedAnswered(r)

SpecOverlap == Init /\ [][NextOverlap]_vars

\* runs in which no ledger call fails and the process is not killed: a run
\* that has a next statement executes it (every request has a timeout)
NextUndisturbed == \E r \in Runs : Start(r) \/ Proceed(r) \/ Exit(r)

SpecUndisturbed ==
    Init /\ [][NextUndisturbed]_vars /\ \A r \in Runs : WF_vars(Proceed(r))

----------------------------------------------------------------------------
(* Properties *)

Entry(g) == price_run_progress[g]
IsDone(g) == Entry(g).present /\ Entry(g).done

\* the run is inside the paging loop of set g
Working(rec, g) ==
    /\ rec.pc \in {"list", "exists_direct", "exists_search", "ret", "upsert", "patch"}
    /\ set_ids[rec.idx] = g

\* the run has just left the paging loop of a set by "break"
AfterBreak(rec) ==
    /\ rec.pc \in {"select_progress", "init_progress", "summary"}
    /\ rec.idx > 1
    /\ rec.fetch.status # None

Left(rec) == set_ids[rec.idx - 1]

SearchEmpty == Http(200, << >>)

\* C1: once the ledger entry of a set has done=true, no step changes the entry
\* and no run is inside the paging loop of that set afterwards (no listing
\* request, no upsert, no ledger patch for it).
C1_IdempotentResume ==
    [][\A g \in Groups :
          IsDone(g) =>
              /\ price_run_progress'[g] = price_run_progress[g]
              /\ \A r \in Runs : ~Working(run'[r], g)]_vars

\* a later run has passed over base1, done before the run began, and pages base2
C1_Witness ==
    \E r \in Runs :
        /\ run[r].pc = "list" /\ run[r].idx = 2
        /\ IsDone("base1")
        /\ run[r].sets_done = << >>
        /\ run[r].sets_skipped = << >>
        /\ run[r].sets_retry = << >>

\* C2 as stated: every page up to last_page_done has its price rows in
\* card_prices (a page without price rows has none to write).
C2_LedgerImpliesRowsWritten ==
    \A g \in Groups :
        \A n \in 1..Entry(g).last_page_done :
            upsert_log[g][n] \in {"written", "norows"}

\* C2 amended: for every page up to last_page_done, upsert_prices was called
\* with the rows of the page and returned before the ledger was advanced to it:
\* the rows are in card_prices, or the page had no price rows, or every one of
\* the MAX_RETRIES write attempts failed and the batch was given up.
C2_UpsertReturnedBeforePatch ==
    \A g \in Groups :
        \A n \in 1..Entry(g).last_page_done :
            /\ upsert_log[g][n] \in {"written", "norows", "failed"}
            /\ upsert_log[g][n] = "written" => HasRows(card_prices, g, n)

\* the ledger stands at page 2 of base1, the rows of page 1 were given up
C2_Witness ==
    /\ Entry("base1") = Row(2, FALSE)
    /\ upsert_log["base1"][1] = "failed"
    /\ upsert_log["base1"][2] = "written"
    /\ ~HasRows(card_prices, "base1", 1)

\* C3: fetch_cards_page returns "skip" only after the direct lookup answered
\* 404 on all 3 attempts and the search answered 200 with no match.
C3_SkipNeedsBothSignals ==
    \A r \in Runs :
        Fetched(r, "skip") =>
            /\ run[r].fetch.exists.n404 = DIRECT_ATTEMPTS
            /\ run[r].fetch.exists.search = SearchEmpty

\* C4: set_exists_in_api returns False exactly when its search call answered
\* 200 with an empty data list; a direct 200, a search with matches, a search
\* with another status and a search that raises all give True.
C4_FalseOnlyOnEmptySearch ==
    \A r \in Runs :
        LET e == run[r].fetch.exists
        IN  e.returned =>
                /\ e.value = (e.search # SearchEmpty)
                /\ e.got200 => e.search = NoResp

\* the search call raised after three direct lookups without an answer: True
C4_Witness ==
    \E r \in Runs :
        LET e == run[r].fetch.exists
        IN  /\ run[r].pc = "ret" /\ e.returned
            /\ e.tries = DIRECT_ATTEMPTS /\ e.n404 = 0
            /\ e.search.kind = "error"
            /\ e.value

\* the set main has just left was marked done at page 0 and listed as skipped
SkippedNotDeferred(rec) ==
    /\ Entry(Left(rec)) = Row(0, TRUE)
    /\ Left(rec) \in SeqToSet(rec.sets_skipped)
    /\ Left(rec) \notin SeqToSet(rec.sets_retry)

\* C5 as stated: listing 404, direct check 404 and search check 404: when main
\* goes on to the next set, the set is done at page 0 and skipped, not deferred.
C5_Skip404On404 ==
    \A r \in Runs :
        LET rec == run[r]
        IN  ( /\ AfterBreak(rec)
              /\ rec.fetch.final.class = "not_found"
              /\ rec.fetch.exists.n404 >= 1
              /\ rec.fetch.exists.search = Http(404, << >>) )
            => SkippedNotDeferred(rec)

\* C5 amended: listing 404, direct check 404 and search check 200 with no
\* match: when main goes on to the next set, the set is done at page 0 and
\* listed as skipped, not as deferred.
C5_SkipOnEmptySearch ==
    \A r \in Runs :
        LET rec == run[r]
        IN  ( /\ AfterBreak(rec)
              /\ rec.fetch.final.class = "not_found"
              /\ rec.fetch.exists.n404 >= 1
              /\ rec.fetch.exists.search = SearchEmpty )
            => SkippedNotDeferred(rec)

\* base1 was skipped at page 2 after a direct 404 and an empty search
C5_Witness ==
    \E r \in Runs :
        LET rec == run[r]
        IN  /\ AfterBreak(rec) /\ rec.idx = 2 /\ rec.page = 2
            /\ rec.fetch.final.class = "not_found"
            /\ rec.fetch.exists.n404 = 1
            /\ rec.fetch.exists.search = SearchEmpty
            /\ rec.sets_skipped = <<"base1">>
            /\ Entry("base1") = Row(0, TRUE)

\* C6: after fetch_cards_page returned "retry" at page p, the set is listed as
\* deferred only, its ledger entry is the one read before the fetch, and as
\* long as the ledger is not written a run that pages the set is at page p.
C6_RetryLeavesLedger ==
    /\ \A r \in Runs :
          LET rec == run[r]
          IN  (AfterBreak(rec) /\ rec.fetch.status = "retry") =>
                  /\ Left(rec) \in SeqToSet(rec.sets_retry)
                  /\ Left(rec) \notin SeqToSet(rec.sets_done)
                  /\ Left(rec) \notin SeqToSet(rec.sets_skipped)
                  /\ Entry(Left(rec)) = rec.fetch.entry_at_fetch
                  /\ deferred[Left(rec)].page = rec.page
    /\ \A g \in Groups :
          deferred[g].page # 0 =>
              /\ Entry(g) = deferred[g].entry
              /\ Entry(g) = Row(deferred[g].page - 1, FALSE)
              /\ \A r \in Runs : Working(run[r], g) => run[r].page = deferred[g].page

\* a later run pages base1 again at page 2, where an earlier run deferred it
C6_Witness ==
    \E r \in Runs :
        /\ run[r].pc = "ret" /\ run[r].idx = 1 /\ run[r].page = 2
        /\ deferred["base1"].page = 2
        /\ run[r].fetch.status = "ok"

\* C7: after fetch_cards_page returned "ok" with no card at page p, the set is
\* listed as done, its ledger entry is done=true with last_page_done = p-1,
\* and upsert_prices was not called for that page.
C7_EmptyPageEndsSet ==
    \A r \in Runs :
        LET rec == run[r]
        IN  (AfterBreak(rec) /\ rec.fetch.status = "ok") =>
                /\ rec.fetch.cards_page = << >>
                /\ Left(rec) \in SeqToSet(rec.sets_done)
                /\ Entry(Left(rec)) = Row(rec.page - 1, TRUE)
                /\ rec.fetch.up_attempt = 0

\* base1 ended on its empty page 3; base2 ended on its empty page 1
C7_Witness ==
    \E r \in Runs :
        LET rec == run[r]
        IN  /\ rec.pc = "summary" /\ rec.page = 1
            /\ rec.fetch.status = "ok" /\ rec.fetch.cards_page = << >>
            /\ rec.sets_done = <<"base1", "base2">>
            /\ Entry("base1") = Row(2, TRUE)
            /\ Entry("base2") = Row(0, TRUE)

\* C8: while fetch_cards_page lists a page, every size before the current one
\* has had MAX_RETRIES transient failures, the current one attempt-1 and the
\* later ones none; a 200 answer at any size is returned as ("ok", its data).
C8_FallbackLadder ==
    \A r \in Runs :
        LET rec == run[r]
            f == rec.fetch
        IN  /\ rec.pc = "list" =>
                   /\ f.size_i \in 1..Len(PAGE_SIZES_TRY)
                   /\ f.attempt \in 1..MAX_RETRIES
                   /\ \A j \in 1..Len(PAGE_SIZES_TRY) :
                         f.fails[j] = IF j < f.size_i THEN MAX_RETRIES
                                      ELSE IF j = f.size_i THEN f.attempt - 1
                                      ELSE 0
            /\ (rec.pc = "ret" /\ f.final.class = "ok") =>
                   /\ f.status = "ok"
                   /\ f.cards_page = f.final.data
                   /\ \A j \in 1..Len(PAGE_SIZES_TRY) :
                         j < f.size_i => f.fails[j] = MAX_RETRIES

\* size 100 failed MAX_RETRIES times, size 50 answered 200 at its first attempt
C8_Witness ==
    \E r \in Runs :
        LET f == run[r].fetch
        IN  /\ run[r].pc = "ret" /\ f.status = "ok"
            /\ f.size_i = 2
            /\ f.fails = <<MAX_RETRIES, 0, 0>>
            /\ f.cards_page = <<"bare", "priced">>

\* C9: no exception leaves the loop over the sets: a run never ends on an
\* exception raised by a call made while a set is processed.
C9_NoExceptionEscapesLoop ==
    \A r \in Runs : run[r].pc = "crashed" => run[r].raised_at = "summary"

\* C10: upsert_prices makes at most MAX_RETRIES attempts and always returns to
\* main, which then patches the ledger to the same page of the same set; after
\* a batch was given up the run is found paging the next page.
C10_UpsertNeverRaises ==
    [][\A r \in Runs :
          run[r].pc = "upsert" =>
              /\ run[r].fetch.up_attempt \in 1..MAX_RETRIES
              /\ run'[r].pc \in {"upsert", "patch", "idle"}
              /\ run'[r].pc = "upsert" =>
                    /\ run'[r].fetch.up_attempt = run[r].fetch.up_attempt + 1
                    /\ card_prices' = card_prices
              /\ run'[r].pc = "patch" =>
                    /\ run'[r].page = run[r].page
                    /\ run'[r].idx = run[r].idx
                    /\ upsert_log'[Cur(r)][run[r].page] = "failed"
                           => run[r].fetch.up_attempt = MAX_RETRIES]_vars

\* the batch of page 1 of base1 was given up, the ledger says page 1 and the
\* run lists page 2
C10_Witness ==
    \E r \in Runs :
        /\ run[r].pc = "list" /\ run[r].idx = 1 /\ run[r].page = 2
        /\ upsert_log["base1"][1] = "failed"
        /\ Entry("base1") = Row(1, FALSE)

\* C11: in runs that do not overlap, no write of the ledger lowers the
\* last_page_done of a set, except the write of main's "skip" branch, which
\* marks the set done and puts last_page_done at 0.
C11_PageNeverDecreases ==
    [][\A g \in Groups :
          price_run_progress'[g].last_page_done < price_run_progress[g].last_page_done
              => /\ price_run_progress'[g] = Row(SkipPage, TRUE)
                 /\ \E r \in Runs : Fetched(r, "skip") /\ Cur(r) = g]_vars

\* base1 was advanced to page 2 and is skipped at page 3: its entry went 0, 1,
\* 2 and then back to 0 with done=true
C11_Witness ==
    \E r \in Runs :
        LET rec == run[r]
        IN  /\ AfterBreak(rec) /\ rec.idx = 2 /\ rec.page = 3
            /\ rec.fetch.status = "skip"
            /\ rec.fetch.entry_at_fetch = Row(2, FALSE)
            /\ Entry("base1") = Row(0, TRUE)
            /\ upsert_log["base1"][2] # "none"

\* C12: in runs that do not overlap, a run inside the paging loop of a set
\* is at page last_page_done + 1 of its ledger entry: page N+1 is requested
\* only once the ledger says N, and a run that follows an interrupted one
\* resumes at the page after the last one committed.
C12_FetchFollowsLedger ==
    \A r \in Runs : \A g \in Groups :
        Working(run[r], g) =>
            /\ Entry(g).present
            /\ ~Entry(g).done
            /\ run[r].page = Entry(g).last_page_done + 1

\* an earlier run upserted page 2 of base1 and ended before the ledger patch;
\* this run is about to send its first request, for page 2 again
C12_Witness ==
    \E r \in Runs :
        /\ run[r].pc = "list" /\ run[r].idx = 1 /\ run[r].page = 2
        /\ run[r].fetch.reqs = 0
        /\ Entry("base1") = Row(1, FALSE)
        /\ upsert_log["base1"][2] = "written"

\* the run began on an empty ledger and has printed its summary; it upserted
\* pages 1 and 2 of base1 and no other, ended base1 on an empty page, and
\* skipped base2 at its first page
TwoPagesThenSkip(rec) ==
    /\ rec.pc = "finished"
    /\ rec.sets_done = <<"base1">>
    /\ rec.sets_skipped = <<"base2">>
    /\ rec.sets_retry = << >>
    /\ \A p \in Pages : upsert_log["base1"][p] # "none" <=> p <= 2
    /\ \A p \in Pages : upsert_log["base2"][p] = "none"

SummaryDoneSkipped(rec) ==
    /\ rec.summary.printed
    /\ rec.summary.done = {"base1"}
    /\ rec.summary.skipped = {"base2"}
    /\ rec.summary.remaining = {}

\* C13 as stated: after two pages of base1, an empty page, and base2 skipped
\* at page 1, the ledger holds base1 = (done, 1) and base2 = (done, 0) and the
\* summary lists base1 done, base2 skipped and nothing remaining.
C13_EndsAtPageOne ==
    \A r \in Runs :
        TwoPagesThenSkip(run[r]) =>
            /\ Entry("base1") = Row(1, TRUE)
            /\ Entry("base2") = Row(0, TRUE)
            /\ SummaryDoneSkipped(run[r])

\* C13 amended: in that scenario the ledger holds base1 = (done, 2), the
\* number of pages paged through, and base2 = (done, 0); the summary lists
\* base1 done, base2 skipped and nothing remaining.
C13_EndsAtPageTwo ==
    \A r \in Runs :
        TwoPagesThenSkip(run[r]) =>
            /\ Entry("base1") = Row(2, TRUE)
            /\ Entry("base2") = Row(0, TRUE)
            /\ SummaryDoneSkipped(run[r])

\* the scenario has run to its summary, every row of both pages written
C13_Witness ==
    \E r \in Runs :
        /\ TwoPagesThenSkip(run[r])
        /\ upsert_log["base1"][1] = "written"
        /\ upsert_log["base1"][2] = "written"

SumFails(f) == f.fails[1] + f.fails[2] + f.fails[3]

\* C14: when the listing call answers a status other than 200, 404, 429, 500,
\* 502, 503, 504, fetch_cards_page returns ([], "retry") on that answer: it is
\* the only request of the call that was not a counted transient failure, the
\* retry budget of the current size is not used up, no smaller size was
\* tried, and set_exists_in_api was not called.
C14_FailFastOnUnexpected ==
    \A r \in Runs :
        LET f == run[r].fetch
        IN  ( /\ run[r].pc = "ret"
              /\ f.final.kind = "http"
              /\ f.final.code \notin {200, 404} \cup TRANSIENT_STATUS )
            => /\ f.status = "retry"
               /\ f.cards_page = << >>
               /\ f.exists = NoExists
               /\ f.reqs = SumFails(f) + 1
               /\ f.fails[f.size_i] < MAX_RETRIES
               /\ \A j \in 1..Len(PAGE_SIZES_TRY) : j > f.size_i => f.fails[j] = 0

\* size 100 failed MAX_RETRIES times, size 50 twice, then 403 ended the call
C14_Witness ==
    \E r \in Runs :
        LET f == run[r].fetch
        IN  /\ run[r].pc = "ret"
            /\ f.final.code = 403
            /\ f.size_i = 2
            /\ f.fails = <<MAX_RETRIES, 2, 0>>
            /\ f.reqs = MAX_RETRIES + 3
            /\ f.status = "retry"

\* the most listing requests one call of fetch_cards_page can send
ListingBudget == Len(PAGE_SIZES_TRY) * MAX_RETRIES

\* C15: a call of fetch_cards_page sends at most len(PAGE_SIZES_TRY) *
\* MAX_RETRIES listing requests (and its resolver at most DIRECT_ATTEMPTS
\* direct lookups); it returns a status among ok, retry, skip, with an empty
\* card list unless the status is ok; when every listing request of the budget
\* failed transiently it returns ([], "retry").
C15_FetchBounded ==
    \A r \in Runs :
        LET rec == run[r]
            f == rec.fetch
        IN  /\ rec.pc = "list" => f.reqs < ListingBudget
            /\ rec.pc = "exists_direct" => f.exists.tries \in 1..DIRECT_ATTEMPTS
            /\ rec.pc = "ret" =>
                   /\ f.reqs <= ListingBudget
                   /\ f.status \in {"ok", "retry", "skip"}
                   /\ f.status # "ok" => f.cards_page = << >>
                   /\ SumFails(f) = ListingBudget =>
                          /\ f.reqs = ListingBudget
                          /\ f.final.class = "transient"
                          /\ f.status = "retry"
                   /\ f.final.class = "transient" => SumFails(f) = ListingBudget

\* every request of the budget failed, the last one by a timeout
C15_Witness ==
    \E r \in Runs :
        LET f == run[r].fetch
        IN  /\ run[r].pc = "ret"
            /\ f.fails = <<MAX_RETRIES, MAX_RETRIES, MAX_RETRIES>>
            /\ f.reqs = ListingBudget
            /\ f.final.kind = "timeout"
            /\ f.status = "retry" /\ f.cards_page = << >>

\* the sets the loop of main has gone past
Visited(rec) ==
    IF rec.pc \in {"summary", "finished"} THEN Groups
    ELSE {set_ids[i] : i \in 1..(rec.idx - 1)}

Occurs(seq, g) == Cardinality({i \in 1..Len(seq) : seq[i] = g})

\* how often the run has listed g as done, skipped or deferred
Listed(rec, g) ==
    Occurs(rec.sets_done, g) + Occurs(rec.sets_skipped, g) + Occurs(rec.sets_retry, g)

\* every set gone past has one outcome: listed once as done, skipped or
\* deferred (and the ledger agrees), or listed nowhere and done before; the
\* sets gone past are a prefix of set_ids and no other set is listed
OneOutcomeInOrder(rec) ==
    /\ rec.pc \in {"summary", "finished"} => rec.idx = Len(set_ids) + 1
    /\ \A g \in Groups :
          IF g \in Visited(rec)
              THEN /\ Listed(rec, g) <= 1
                   /\ Listed(rec, g) = 0 => IsDone(g)
                   /\ Occurs(rec.sets_done, g) = 1 => IsDone(g)
                   /\ Occurs(rec.sets_skipped, g) = 1 => Entry(g) = Row(SkipPage, TRUE)
                   /\ Occurs(rec.sets_retry, g) = 1 => ~IsDone(g)
              ELSE Listed(rec, g) = 0

\* C16: when no ledger call fails and the process is not killed, a run of
\* main() that has started reaches the end of its summary; the sets it has
\* gone past are always a prefix of set_ids in id order, each with exactly one
\* outcome (done before, done, skipped, deferred), and at the summary every
\* set has one, whatever sets were deferred before it.
C16_RunTerminates ==
    /\ [](\A r \in Runs : OneOutcomeInOrder(run[r]))
    /\ \A r \in Runs : (run[r].pc # "idle") ~> (run[r].pc = "finished")

\* base1 was deferred and base2, after it, was paged to its end in the same run
C16_Witness ==
    \E r \in Runs :
        /\ run[r].pc = "finished"
        /\ run[r].sets_retry = <<"base1">>
        /\ run[r].sets_done = <<"base2">>
        /\ ~IsDone("base1") /\ IsDone("base2")

\* C17: in the summary a run prints, no set is both in the list shown as done
\* and in the list shown as skipped.
C17_DoneSkippedDisjoint ==
    \A r \in Runs :
        run[r].summary.printed =>
            run[r].summary.done \cap run[r].summary.skipped = {}

\* C18: when a run has printed its summary (no exception, no other run
\* writing the ledger), the list shown as remaining is exactly the list of the
\* sets the run deferred, and every set is either done in the ledger or was
\* deferred by the run, never both.
C18_RemainingIsDeferred ==
    \A r \in Runs :
        run[r].pc = "finished" =>
            /\ run[r].summary.remaining = SeqToSet(run[r].sets_retry)
            /\ \A g \in Groups :
                  IsDone(g) <=> g \notin SeqToSet(run[r].sets_retry)

\* base1 was done before the run began and is in none of its lists; the run
\* deferred base2, the only set shown as remaining
C18_Witness ==
    \E r \in Runs :
        /\ run[r].pc = "finished"
        /\ run[r].sets_done = << >> /\ run[r].sets_skipped = << >>
        /\ run[r].sets_retry = <<"base2">>
        /\ run[r].summary.remaining = {"base2"}
        /\ IsDone("base1")

\* C19: when two invocations of main() on the same date interleave their
\* ledger reads and writes, no step takes the done of a set from true back to
\* false, and no step lowers its last_page_done except the skip write to 0.
C19_OverlapKeepsLedger ==
    [][\A g \in Groups :
          /\ IsDone(g) => price_run_progress'[g].done
          /\ price_run_progress'[g].last_page_done < price_run_progress[g].last_page_done
                => /\ price_run_progress'[g] = Row(SkipPage, TRUE)
                   /\ \E r \in Runs : Fetched(r, "skip") /\ Cur(r) = g]_vars

====
